---- MODULE Spec2Model ----
(***************************************************************************)
(* Index configuration and validation of vectordb-orm                      *)
(* (src/vectordb_orm/indexes.py).                                          *)
(*                                                                         *)
(* One construction call at a time is modelled statement by statement:     *)
(* the caller picks a class and its arguments (Call), the statements of     *)
(* the class's __init__ run in the order of the source, and the call ends  *)
(* either "returned" (the instance exists) or "raised" (a ValueError left  *)
(* the constructor).  Discard drops the object and the next call begins.   *)
(*                                                                         *)
(* Python values:                                                          *)
(*   - an int is an integer; None in an int position is the integer None,  *)
(*     which no input set contains;                                        *)
(*   - a metric value is a record [type, name]: type is the Python class   *)
(*     of the value, so that isinstance is a test of the type field;       *)
(*   - a dict is a record with the dict's keys;                            *)
(*   - an object is a record of its attributes plus the set "assigned" of  *)
(*     the attributes that have been assigned so far.                      *)
(***************************************************************************)
EXTENDS Integers, Sequences, FiniteSets

(***************************************************************************)
(* Bounds of the model: every numeric input is drawn from the values       *)
(* within Margin of each boundary the code tests, plus one mid-range value. *)
(***************************************************************************)
Margin == 1

\* Python's None where an int is expected.
None == -1

Around(b) == {n \in (b - Margin)..(b + Margin) : n >= 0}

(***************************************************************************)
(* Similarity metrics (vectordb_orm.similarity, imported at line 2).       *)
(***************************************************************************)
L2 == [type |-> "FloatSimilarityMetric", name |-> "L2"]

IP == [type |-> "FloatSimilarityMetric", name |-> "IP"]

JACCARD == [type |-> "BinarySimilarityMetric", name |-> "JACCARD"]

HAMMING == [type |-> "BinarySimilarityMetric", name |-> "HAMMING"]

TANIMOTO == [type |-> "BinarySimilarityMetric", name |-> "TANIMOTO"]

FloatSimilarityMetric == {L2, IP}

BinarySimilarityMetric == {JACCARD, HAMMING, TANIMOTO}

\* metric_type=None, the default of every constructor.
NoneMetric == [type |-> "NoneType", name |-> "None"]

\* A value that is a member of neither enumeration, e.g. the str "L2":
\* Python does not enforce the annotation of metric_type.
OtherValues == {[type |-> "str", name |-> "L2"]}

MetricArguments ==
    {NoneMetric} \cup FloatSimilarityMetric \cup BinarySimilarityMetric \cup OtherValues

\* isinstance(value, cls) for the metric classes.
isinstance(value, class) == value.type = class

(***************************************************************************)
(* The classes and the two module-level sets (lines 265-266).              *)
(***************************************************************************)
Classes == {"FLAT", "IVF_FLAT", "IVF_SQ8", "IVF_PQ", "HNSW", "BIN_FLAT", "BIN_IVF_FLAT"}

\* Faulty variant: HNSW left out of the Floating set.
FLOATING_INDEXES_WithoutHNSW == {"FLAT", "IVF_FLAT", "IVF_SQ8", "IVF_PQ"}

FLOATING_INDEXES == {"FLAT", "IVF_FLAT", "IVF_SQ8", "IVF_PQ", "HNSW"}

BINARY_INDEXES == {"BIN_FLAT", "BIN_IVF_FLAT"}

\* The sets of vectordb_orm.backends.milvus (the Milvus_* aliases name the
\* classes with the same index_type).
Milvus_FLOATING_INDEXES == {"FLAT", "IVF_FLAT", "IVF_SQ8", "IVF_PQ", "HNSW"}

Milvus_BINARY_INDEXES == {"BIN_FLAT", "BIN_IVF_FLAT"}

VARIABLES
    floating_indexes,   \* the module global FLOATING_INDEXES
    binary_indexes,     \* the module global BINARY_INDEXES
    status,             \* "idle" | "running" | "returned" | "raised"
    call,               \* the class under construction and its arguments
    pc,                 \* index of the next statement of the class's __init__
    metric_type,        \* the local metric_type of IndexBase.__init__
    self,               \* the object under construction
    error,              \* the ValueError raised, if any
    executed            \* history: the statements executed by this call

vars == <<floating_indexes, binary_indexes, status, call, pc, metric_type, self,
          error, executed>>

(***************************************************************************)
(* Arguments.                                                              *)
(***************************************************************************)
ClusterUnitsValues == Around(1) \cup {128} \cup Around(65536)

InferenceComparisonValues == {None} \cup Around(1) \cup Around(128) \cup Around(65536)

ProductQuantizationValues == {None, 0, 4}

LowDimensionBitsValues == {None} \cup Around(1) \cup {8} \cup Around(16)

MaxDegreeValues == Around(4) \cup {16} \cup Around(64)

SearchScopeIndexValues == Around(8) \cup {200} \cup Around(512)

SearchScopeInferenceValues == Around(1) \cup {64} \cup Around(32768)

NoArguments ==
    [cls |-> "", metric_type |-> NoneMetric, cluster_units |-> None,
     inference_comparison |-> None, product_quantization |-> None,
     low_dimension_bits |-> None, max_degree |-> None,
     search_scope_index |-> None, search_scope_inference |-> None]

\* FLAT(metric_type=None), BIN_FLAT(metric_type=None)
FlatCalls ==
    {[NoArguments EXCEPT !.cls = c, !.metric_type = mt] :
        c \in {"FLAT", "BIN_FLAT"}, mt \in MetricArguments}

\* IVF_FLAT / IVF_SQ8 / BIN_IVF_FLAT (cluster_units, inference_comparison=None,
\* metric_type=None)
IvfCalls ==
    {[NoArguments EXCEPT !.cls = c, !.metric_type = mt, !.cluster_units = cu,
                         !.inference_comparison = ic] :
        c \in {"IVF_FLAT", "IVF_SQ8", "BIN_IVF_FLAT"}, mt \in MetricArguments,
        cu \in ClusterUnitsValues, ic \in InferenceComparisonValues}

\* IVF_PQ(cluster_units, product_quantization=None, inference_comparison=None,
\*        low_dimension_bits=None, metric_type=None)
IvfPqCalls ==
    {[NoArguments EXCEPT !.cls = "IVF_PQ", !.metric_type = mt, !.cluster_units = cu,
                         !.inference_comparison = ic, !.product_quantization = pq,
                         !.low_dimension_bits = ldb] :
        mt \in MetricArguments, cu \in ClusterUnitsValues,
        ic \in InferenceComparisonValues, pq \in ProductQuantizationValues,
        ldb \in LowDimensionBitsValues}

\* HNSW(max_degree, search_scope_index, search_scope_inference, metric_type=None)
HnswCalls ==
    {[NoArguments EXCEPT !.cls = "HNSW", !.metric_type = mt, !.max_degree = md,
                         !.search_scope_index = ssi, !.search_scope_inference = ssq] :
        mt \in MetricArguments, md \in MaxDegreeValues,
        ssi \in SearchScopeIndexValues, ssq \in SearchScopeInferenceValues}

(***************************************************************************)
(* Objects and errors.                                                     *)
(***************************************************************************)
\* A fresh object: no attribute assigned yet.
NewObject ==
    [assigned |-> {}, metric_type |-> NoneMetric, nlist |-> None, nprobe |-> None,
     m |-> None, nbits |-> None, efConstruction |-> None, ef |-> None]

\* A bound named in a message: a numeral, or the name of a parameter.
Lit(n) == [param |-> "", lit |-> n]

Param(p) == [param |-> p, lit |-> 0]

NoError ==
    [text |-> "", field |-> "", lo |-> Lit(0), hi |-> Lit(0), interpolated |-> {}]

\* f"Index type {self} is not supported for metric type {metric_type}"
MetricTypeError ==
    [text |-> "Index type {self} is not supported for metric type {metric_type}",
     field |-> "", lo |-> Lit(0), hi |-> Lit(0),
     interpolated |-> {"self", "metric_type"}]

\* A message "<field> must be between <lo> and <hi>": a plain string literal,
\* nothing is interpolated into it.
BetweenError(field, lo, hi) ==
    [text |-> "must be between", field |-> field, lo |-> lo, hi |-> hi,
     interpolated |-> {}]

ClusterUnitsError == BetweenError("cluster_units", Lit(1), Lit(65536))

InferenceComparisonError ==
    BetweenError("inference_comparison", Lit(1), Param("cluster_units"))

LowDimensionBitsError == BetweenError("low_dimension_bits", Lit(1), Lit(16))

MaxDegreeError == BetweenError("max_degree", Lit(4), Lit(64))

SearchScopeIndexError == BetweenError("search_scope", Lit(1), Lit(512))

SearchScopeInferenceError == BetweenError("search_scope", Lit(1), Lit(32768))

\* Python's "a or b".
Or(a, b) == IF a # None /\ a # 0 THEN a ELSE b

(***************************************************************************)
(* IndexBase.__init__ (lines 12-24) and _assert_metric_type (lines 38-50). *)
(***************************************************************************)
\* Faulty variant: no default is chosen.
DefaultMetric_NoDefault(cls, mt) == mt

\* Lines 17-21: a default when metric_type is None, by the family of self.
DefaultMetric(cls, mt) ==
    IF mt = NoneMetric
    THEN IF cls \in floating_indexes THEN L2
         ELSE IF cls \in binary_indexes THEN JACCARD
         ELSE mt
    ELSE mt

\* Lines 45-50: TRUE when _assert_metric_type raises.
AssertMetricTypeRaises(cls, mt) ==
    IF isinstance(mt, "FloatSimilarityMetric") THEN cls \notin floating_indexes
    ELSE IF isinstance(mt, "BinarySimilarityMetric") THEN cls \notin binary_indexes
    ELSE FALSE

(***************************************************************************)
(* The bounds tests of the constructors.  Each operator is the negation of *)
(* the condition of the "if" that raises: the constructor raises exactly   *)
(* when it is FALSE.                                                       *)
(***************************************************************************)
IVF_FLAT_cluster_units(cluster_units) ==
    cluster_units >= 1 /\ cluster_units <= 65536

IVF_FLAT_inference_comparison(inference_comparison, cluster_units) ==
    inference_comparison = None
        \/ (inference_comparison >= 1 /\ inference_comparison <= cluster_units)

\* Faulty variant: the upper bound is exclusive.
IVF_SQ8_cluster_units_Exclusive(cluster_units) ==
    cluster_units >= 1 /\ cluster_units < 65536

IVF_SQ8_cluster_units(cluster_units) ==
    cluster_units >= 1 /\ cluster_units <= 65536

IVF_SQ8_inference_comparison(inference_comparison, cluster_units) ==
    inference_comparison = None
        \/ (inference_comparison >= 1 /\ inference_comparison <= cluster_units)

IVF_PQ_cluster_units(cluster_units) ==
    cluster_units >= 1 /\ cluster_units <= 65536

IVF_PQ_inference_comparison(inference_comparison, cluster_units) ==
    inference_comparison = None
        \/ (inference_comparison >= 1 /\ inference_comparison <= cluster_units)

\* Faulty variant: the test forgets "is not None".
IVF_PQ_low_dimension_bits_NoneTested(low_dimension_bits) ==
    low_dimension_bits >= 1 /\ low_dimension_bits <= 16

IVF_PQ_low_dimension_bits(low_dimension_bits) ==
    low_dimension_bits = None
        \/ (low_dimension_bits >= 1 /\ low_dimension_bits <= 16)

BIN_IVF_FLAT_cluster_units(cluster_units) ==
    cluster_units >= 1 /\ cluster_units <= 65536

BIN_IVF_FLAT_inference_comparison(inference_comparison, cluster_units) ==
    inference_comparison = None
        \/ (inference_comparison >= 1 /\ inference_comparison <= cluster_units)

HNSW_max_degree(max_degree) ==
    max_degree >= 4 /\ max_degree <= 64

\* Faulty variant: the lower bound of the message, 1, is the one tested.
HNSW_search_scope_index_From1(search_scope_index) ==
    search_scope_index >= 1 /\ search_scope_index <= 512

HNSW_search_scope_index(search_scope_index) ==
    search_scope_index >= 8 /\ search_scope_index <= 512

HNSW_search_scope_inference(search_scope_inference) ==
    search_scope_inference >= 1 /\ search_scope_inference <= 32768

(***************************************************************************)
(* The assignments that end each constructor.                              *)
(***************************************************************************)
\* Lines 91-92.
IVF_FLAT_store(obj, args) ==
    [obj EXCEPT !.nlist = args.cluster_units,
                !.nprobe = Or(args.inference_comparison, args.cluster_units),
                !.assigned = @ \cup {"nlist", "nprobe"}]

\* Lines 126-127.
IVF_SQ8_store(obj, args) ==
    [obj EXCEPT !.nlist = args.cluster_units,
                !.nprobe = Or(args.inference_comparison, args.cluster_units),
                !.assigned = @ \cup {"nlist", "nprobe"}]

\* Faulty variant: nprobe is always cluster_units.
IVF_PQ_store_ProbeIgnored(obj, args) ==
    [obj EXCEPT !.m = args.product_quantization,
                !.nbits = Or(args.low_dimension_bits, 8),
                !.nlist = args.cluster_units,
                !.nprobe = args.cluster_units,
                !.assigned = @ \cup {"m", "nbits", "nlist", "nprobe"}]

\* Lines 165-168.
IVF_PQ_store(obj, args) ==
    [obj EXCEPT !.m = args.product_quantization,
                !.nbits = Or(args.low_dimension_bits, 8),
                !.nlist = args.cluster_units,
                !.nprobe = Or(args.inference_comparison, args.cluster_units),
                !.assigned = @ \cup {"m", "nbits", "nlist", "nprobe"}]

\* Lines 206-208.
HNSW_store(obj, args) ==
    [obj EXCEPT !.m = args.max_degree,
                !.efConstruction = args.search_scope_index,
                !.ef = args.search_scope_inference,
                !.assigned = @ \cup {"m", "efConstruction", "ef"}]

\* Lines 255-256.
BIN_IVF_FLAT_store(obj, args) ==
    [obj EXCEPT !.nlist = args.cluster_units,
                !.nprobe = Or(args.inference_comparison, args.cluster_units),
                !.assigned = @ \cup {"nlist", "nprobe"}]

(***************************************************************************)
(* get_index_parameters and get_inference_parameters of the classes that   *)
(* take numeric parameters.                                                *)
(***************************************************************************)
IVF_FLAT_get_index_parameters(obj) == [nlist |-> obj.nlist]

IVF_FLAT_get_inference_parameters(obj) == [nprobe |-> obj.nprobe]

IVF_SQ8_get_index_parameters(obj) == [nlist |-> obj.nlist]

IVF_SQ8_get_inference_parameters(obj) == [nprobe |-> obj.nprobe]

IVF_PQ_get_index_parameters(obj) == [nlist |-> obj.nlist, m |-> obj.m, nbits |-> obj.nbits]

IVF_PQ_get_inference_parameters(obj) == [nprobe |-> obj.nprobe]

HNSW_get_index_parameters(obj) == [M |-> obj.m, efConstruction |-> obj.efConstruction]

HNSW_get_inference_parameters(obj) == [ef |-> obj.ef]

BIN_IVF_FLAT_get_index_parameters(obj) == [nlist |-> obj.nlist]

BIN_IVF_FLAT_get_inference_parameters(obj) == [nprobe |-> obj.nprobe]

(***************************************************************************)
(* The statements of each __init__, in the order of the source.            *)
(***************************************************************************)
\* Lines 17-24.
IndexBase_init == <<"resolve_default", "assert_metric_type", "store_metric_type">>

\* FLAT and BIN_FLAT define no __init__: IndexBase.__init__ runs.
FLAT_init == IndexBase_init

BIN_FLAT_init == IndexBase_init

\* Lines 85-92: super().__init__, the two tests, the assignments.
IVF_FLAT_init ==
    IndexBase_init \o <<"check_cluster_units", "check_inference_comparison", "store_fields">>

\* Lines 120-127.
IVF_SQ8_init ==
    IndexBase_init \o <<"check_cluster_units", "check_inference_comparison", "store_fields">>

\* Lines 157-168.
IVF_PQ_init ==
    IndexBase_init \o <<"check_cluster_units", "check_inference_comparison",
                        "check_low_dimension_bits", "store_fields">>

\* Faulty variant: super().__init__ is called after the bounds tests.
HNSW_init_BoundsFirst ==
    <<"check_max_degree", "check_search_scope_index", "check_search_scope_inference">>
        \o IndexBase_init \o <<"store_fields">>

\* Lines 196-208.
HNSW_init ==
    IndexBase_init \o <<"check_max_degree", "check_search_scope_index",
                        "check_search_scope_inference", "store_fields">>

\* Lines 249-256.
BIN_IVF_FLAT_init ==
    IndexBase_init \o <<"check_cluster_units", "check_inference_comparison", "store_fields">>

Body(cls) ==
    CASE cls = "FLAT" -> FLAT_init
      [] cls = "BIN_FLAT" -> BIN_FLAT_init
      [] cls = "IVF_FLAT" -> IVF_FLAT_init
      [] cls = "IVF_SQ8" -> IVF_SQ8_init
      [] cls = "IVF_PQ" -> IVF_PQ_init
      [] cls = "HNSW" -> HNSW_init
      [] cls = "BIN_IVF_FLAT" -> BIN_IVF_FLAT_init

(***************************************************************************)
(* The state machine.                                                      *)
(***************************************************************************)
Init ==
    /\ floating_indexes = FLOATING_INDEXES
    /\ binary_indexes = BINARY_INDEXES
    /\ status = "idle"
    /\ call = NoArguments
    /\ pc = 1
    /\ metric_type = NoneMetric
    /\ self = NewObject
    /\ error = NoError
    /\ executed = <<>>

\* The statement about to run.
Stmt == IF status = "running" THEN Body(call.cls)[pc] ELSE ""

\* The statement at pc completes without raising.
Advance(stmt) ==
    /\ executed' = Append(executed, stmt)
    /\ pc' = pc + 1
    /\ status' = IF pc = Len(Body(call.cls)) THEN "returned" ELSE "running"
    /\ error' = error

\* The statement at pc raises: the exception leaves the constructor.
Raise(stmt, e) ==
    /\ executed' = Append(executed, stmt)
    /\ pc' = pc
    /\ status' = "raised"
    /\ error' = e

\* The statement at pc is a bounds test.
Check(stmt, ok, e) ==
    /\ Stmt = stmt
    /\ IF ok THEN Advance(stmt) ELSE Raise(stmt, e)
    /\ UNCHANGED <<floating_indexes, binary_indexes, call, metric_type, self>>

\* A caller constructs an index: cls(...) allocates the object and enters __init__.
Call ==
    /\ status = "idle"
    /\ \E c \in FlatCalls \cup IvfCalls \cup IvfPqCalls \cup HnswCalls :
        /\ call' = c
        /\ metric_type' = c.metric_type
    /\ status' = "running"
    /\ pc' = 1
    /\ self' = NewObject
    /\ error' = NoError
    /\ executed' = <<>>
    /\ UNCHANGED <<floating_indexes, binary_indexes>>

\* Lines 17-21.
ResolveDefault ==
    /\ Stmt = "resolve_default"
    /\ metric_type' = DefaultMetric(call.cls, metric_type)
    /\ Advance("resolve_default")
    /\ UNCHANGED <<floating_indexes, binary_indexes, call, self>>

\* Line 23.
AssertMetricType ==
    /\ Stmt = "assert_metric_type"
    /\ IF AssertMetricTypeRaises(call.cls, metric_type)
       THEN Raise("assert_metric_type", MetricTypeError)
       ELSE Advance("assert_metric_type")
    /\ UNCHANGED <<floating_indexes, binary_indexes, call, metric_type, self>>

\* Line 24.
StoreMetricType ==
    /\ Stmt = "store_metric_type"
    /\ self' = [self EXCEPT !.metric_type = metric_type,
                            !.assigned = @ \cup {"metric_type"}]
    /\ Advance("store_metric_type")
    /\ UNCHANGED <<floating_indexes, binary_indexes, call, metric_type>>

\* Lines 87-88, 122-123, 159-160, 251-252.
ClusterUnitsOk(args) ==
    CASE args.cls = "IVF_FLAT" -> IVF_FLAT_cluster_units(args.cluster_units)
      [] args.cls = "IVF_SQ8" -> IVF_SQ8_cluster_units(args.cluster_units)
      [] args.cls = "IVF_PQ" -> IVF_PQ_cluster_units(args.cluster_units)
      [] args.cls = "BIN_IVF_FLAT" -> BIN_IVF_FLAT_cluster_units(args.cluster_units)

CheckClusterUnits ==
    Check("check_cluster_units", ClusterUnitsOk(call), ClusterUnitsError)

\* Lines 89-90, 124-125, 161-162, 253-254.
InferenceComparisonOk(args) ==
    CASE args.cls = "IVF_FLAT" ->
            IVF_FLAT_inference_comparison(args.inference_comparison, args.cluster_units)
      [] args.cls = "IVF_SQ8" ->
            IVF_SQ8_inference_comparison(args.inference_comparison, args.cluster_units)
      [] args.cls = "IVF_PQ" ->
            IVF_PQ_inference_comparison(args.inference_comparison, args.cluster_units)
      [] args.cls = "BIN_IVF_FLAT" ->
            BIN_IVF_FLAT_inference_comparison(args.inference_comparison, args.cluster_units)

CheckInferenceComparison ==
    Check("check_inference_comparison", InferenceComparisonOk(call),
          InferenceComparisonError)

\* Lines 163-164.
CheckLowDimensionBits ==
    Check("check_low_dimension_bits", IVF_PQ_low_dimension_bits(call.low_dimension_bits),
          LowDimensionBitsError)

\* Lines 198-199.
CheckMaxDegree ==
    Check("check_max_degree", HNSW_max_degree(call.max_degree), MaxDegreeError)

\* Lines 200-201.
CheckSearchScopeIndex ==
    Check("check_search_scope_index", HNSW_search_scope_index(call.search_scope_index),
          SearchScopeIndexError)

\* Lines 202-205.
CheckSearchScopeInference ==
    Check("check_search_scope_inference",
          HNSW_search_scope_inference(call.search_scope_inference),
          SearchScopeInferenceError)

\* Lines 91-92, 126-127, 165-168, 206-208, 255-256.
Store(obj, args) ==
    CASE args.cls = "IVF_FLAT" -> IVF_FLAT_store(obj, args)
      [] args.cls = "IVF_SQ8" -> IVF_SQ8_store(obj, args)
      [] args.cls = "IVF_PQ" -> IVF_PQ_store(obj, args)
      [] args.cls = "HNSW" -> HNSW_store(obj, args)
      [] args.cls = "BIN_IVF_FLAT" -> BIN_IVF_FLAT_store(obj, args)

StoreFields ==
    /\ Stmt = "store_fields"
    /\ self' = Store(self, call)
    /\ Advance("store_fields")
    /\ UNCHANGED <<floating_indexes, binary_indexes, call, metric_type>>

\* The caller is done with the outcome; the object goes out of scope.
Discard ==
    /\ status \in {"returned", "raised"}
    /\ status' = "idle"
    /\ call' = NoArguments
    /\ pc' = 1
    /\ metric_type' = NoneMetric
    /\ self' = NewObject
    /\ error' = NoError
    /\ executed' = <<>>
    /\ UNCHANGED <<floating_indexes, binary_indexes>>

Next ==
    \/ Call
    \/ ResolveDefault
    \/ AssertMetricType
    \/ StoreMetricType
    \/ CheckClusterUnits
    \/ CheckInferenceComparison
    \/ CheckLowDimensionBits
    \/ CheckMaxDegree
    \/ CheckSearchScopeIndex
    \/ CheckSearchScopeInference
    \/ StoreFields
    \/ Discard

Spec == Init /\ [][Next]_vars

\* The dicts an instance hands out.
get_index_parameters(cls, obj) ==
    CASE cls = "IVF_FLAT" -> IVF_FLAT_get_index_parameters(obj)
      [] cls = "IVF_SQ8" -> IVF_SQ8_get_index_parameters(obj)
      [] cls = "IVF_PQ" -> IVF_PQ_get_index_parameters(obj)
      [] cls = "HNSW" -> HNSW_get_index_parameters(obj)
      [] cls = "BIN_IVF_FLAT" -> BIN_IVF_FLAT_get_index_parameters(obj)

get_inference_parameters(cls, obj) ==
    CASE cls = "IVF_FLAT" -> IVF_FLAT_get_inference_parameters(obj)
      [] cls = "IVF_SQ8" -> IVF_SQ8_get_inference_parameters(obj)
      [] cls = "IVF_PQ" -> IVF_PQ_get_inference_parameters(obj)
      [] cls = "HNSW" -> HNSW_get_inference_parameters(obj)
      [] cls = "BIN_IVF_FLAT" -> BIN_IVF_FLAT_get_inference_parameters(obj)

(***************************************************************************)
(* Vocabulary of the properties.                                           *)
(***************************************************************************)
\* The family of a metric value: that of the enumeration it is drawn from.
Family(mt) ==
    IF isinstance(mt, "FloatSimilarityMetric") THEN "Floating"
    ELSE IF isinstance(mt, "BinarySimilarityMetric") THEN "Binary"
    ELSE "none"

\* The family the specification gives each variant.
FamilyOf(cls) ==
    IF cls \in {"FLAT", "IVF_FLAT", "IVF_SQ8", "IVF_PQ", "HNSW"} THEN "Floating" ELSE "Binary"

Finished == status \in {"returned", "raised"}

Omitted(args) == args.metric_type = NoneMetric

\* The call supplies a metric of one of the two enumerations.
SuppliesMetric(args) == Family(args.metric_type) \in {"Floating", "Binary"}

Compatible(args) == SuppliesMetric(args) /\ Family(args.metric_type) = FamilyOf(args.cls)

Incompatible(args) == SuppliesMetric(args) /\ Family(args.metric_type) # FamilyOf(args.cls)

RaisedIncompatibleMetric == status = "raised" /\ error.text = MetricTypeError.text

IvfClasses == {"IVF_FLAT", "IVF_SQ8", "BIN_IVF_FLAT"}

ValidClusterAndProbe(args) ==
    /\ 1 <= args.cluster_units /\ args.cluster_units <= 65536
    /\ \/ args.inference_comparison = None
       \/ (1 <= args.inference_comparison /\ args.inference_comparison <= args.cluster_units)

ValidCodeBits(args) ==
    \/ args.low_dimension_bits = None
    \/ (1 <= args.low_dimension_bits /\ args.low_dimension_bits <= 16)

ValidHnsw(args) ==
    /\ 4 <= args.max_degree /\ args.max_degree <= 64
    /\ 8 <= args.search_scope_index /\ args.search_scope_index <= 512
    /\ 1 <= args.search_scope_inference /\ args.search_scope_inference <= 32768

(***************************************************************************)
(* C1.  An explicitly supplied metric whose family differs from the        *)
(* variant's makes construction fail with the incompatible-metric error,   *)
(* whatever the numeric parameters; hence every instance that exists has   *)
(* a metric of its variant's family.                                       *)
(***************************************************************************)
C1_MetricFamilyMatches ==
    /\ (Finished /\ Incompatible(call)) => RaisedIncompatibleMetric
    /\ status = "returned" => Family(self.metric_type) = FamilyOf(call.cls)

(***************************************************************************)
(* C2.  A successful construction with the metric omitted stores the       *)
(* family default (L2 for the Floating variants, JACCARD for the Binary    *)
(* ones); the stored metric is never unset; a supplied compatible metric   *)
(* is stored unchanged.                                                    *)
(***************************************************************************)
C2_DefaultMetricStored ==
    status = "returned" =>
        /\ "metric_type" \in self.assigned
        /\ self.metric_type # NoneMetric
        /\ Omitted(call) =>
              self.metric_type = (IF FamilyOf(call.cls) = "Floating" THEN L2 ELSE JACCARD)
        /\ Compatible(call) => self.metric_type = call.metric_type

C2_Witness ==
    /\ status = "returned"
    /\ call.cls = "BIN_IVF_FLAT"
    /\ Omitted(call)
    /\ self.metric_type = JACCARD

(***************************************************************************)
(* C3.  IVF_FLAT, IVF_SQ8 and BIN_IVF_FLAT, with a compatible or omitted   *)
(* metric: construction succeeds if and only if 1 <= clusterUnits <= 65536 *)
(* and probeCount is omitted or 1 <= probeCount <= clusterUnits.           *)
(***************************************************************************)
C3_IvfBounds ==
    (Finished /\ call.cls \in IvfClasses /\ (Compatible(call) \/ Omitted(call))) =>
        (status = "returned" <=> ValidClusterAndProbe(call))

C3_Witness ==
    /\ status = "returned"
    /\ call.cls = "IVF_SQ8"
    /\ call.cluster_units = 65536
    /\ call.inference_comparison = 65536

(***************************************************************************)
(* C4.  Every constructed IVF_FLAT, IVF_SQ8, BIN_IVF_FLAT or IVF_PQ        *)
(* instance: the build parameters map nlist to clusterUnits, the query     *)
(* parameters are exactly {nprobe: p} with p the supplied probeCount, or   *)
(* clusterUnits when it was omitted, and 1 <= nprobe <= nlist.             *)
(***************************************************************************)
C4_NprobeDefault ==
    (status = "returned" /\ call.cls \in IvfClasses \cup {"IVF_PQ"}) =>
        /\ get_index_parameters(call.cls, self).nlist = call.cluster_units
        /\ get_inference_parameters(call.cls, self) =
              [nprobe |-> IF call.inference_comparison = None
                          THEN call.cluster_units
                          ELSE call.inference_comparison]
        /\ 1 <= get_inference_parameters(call.cls, self).nprobe
        /\ get_inference_parameters(call.cls, self).nprobe
              <= get_index_parameters(call.cls, self).nlist

C4_Witness ==
    /\ status = "returned"
    /\ call.cls = "IVF_PQ"
    /\ call.cluster_units = 128
    /\ call.inference_comparison = 1
    /\ get_inference_parameters("IVF_PQ", self) = [nprobe |-> 1]

(***************************************************************************)
(* C5.  HNSW, with a compatible or omitted metric: construction succeeds   *)
(* if and only if 4 <= maxDegree <= 64, 8 <= searchScopeBuild <= 512 and   *)
(* 1 <= searchScopeQuery <= 32768; on success the build parameters are     *)
(* {M, efConstruction} and the query parameters are {ef}.                  *)
(***************************************************************************)
C5_HnswBounds ==
    (Finished /\ call.cls = "HNSW" /\ (Compatible(call) \/ Omitted(call))) =>
        /\ status = "returned" <=> ValidHnsw(call)
        /\ status = "returned" =>
              /\ get_index_parameters("HNSW", self) =
                    [M |-> call.max_degree, efConstruction |-> call.search_scope_index]
              /\ get_inference_parameters("HNSW", self) =
                    [ef |-> call.search_scope_inference]

C5_Witness ==
    /\ status = "returned"
    /\ call.cls = "HNSW"
    /\ get_index_parameters("HNSW", self) = [M |-> 16, efConstruction |-> 200]
    /\ get_inference_parameters("HNSW", self) = [ef |-> 64]

(***************************************************************************)
(* C6.  IVF_PQ, with valid clusterUnits and probeCount and a compatible    *)
(* (or omitted) metric: construction succeeds if and only if codeBits is   *)
(* omitted or 1 <= codeBits <= 16, whatever subquantizers is; on success   *)
(* the build parameters are {nlist, m: subquantizers, nbits}, nbits being  *)
(* 8 when codeBits was omitted.                                            *)
(***************************************************************************)
C6_IvfPqCodeBits ==
    (/\ Finished
     /\ call.cls = "IVF_PQ"
     /\ Compatible(call) \/ Omitted(call)
     /\ ValidClusterAndProbe(call)) =>
        /\ status = "returned" <=> ValidCodeBits(call)
        /\ status = "returned" =>
              get_index_parameters("IVF_PQ", self) =
                  [nlist |-> call.cluster_units,
                   m |-> call.product_quantization,
                   nbits |-> IF call.low_dimension_bits = None
                             THEN 8
                             ELSE call.low_dimension_bits]

C6_Witness ==
    /\ status = "returned"
    /\ call.cls = "IVF_PQ"
    /\ call.product_quantization = 4
    /\ call.low_dimension_bits = None
    /\ get_index_parameters("IVF_PQ", self).nbits = 8
    /\ get_inference_parameters("IVF_PQ", self).nprobe = call.cluster_units

(***************************************************************************)
(* C7.  A supplied value that belongs to neither enumeration makes         *)
(* construction fail at the metric check; no instance whose metric lies    *)
(* outside the two enumerations exists.                                    *)
(***************************************************************************)
C7_UnknownMetricRejected ==
    /\ (Finished /\ ~Omitted(call) /\ ~SuppliesMetric(call)) =>
          (status = "raised" /\ executed[Len(executed)] = "assert_metric_type")
    /\ status = "returned" => Family(self.metric_type) # "none"

(***************************************************************************)
(* C8.  A failure of a bounds test names the rejected field, the supplied  *)
(* value and the valid range, and the range named is the inclusive bound   *)
(* enforced for that field.                                                *)
(***************************************************************************)
BoundsTests ==
    {"check_cluster_units", "check_inference_comparison", "check_low_dimension_bits",
     "check_max_degree", "check_search_scope_index", "check_search_scope_inference"}

\* The parameter each test is about and the bound enforced for it.
Enforced(stmt) ==
    CASE stmt = "check_cluster_units" -> BetweenError("cluster_units", Lit(1), Lit(65536))
      [] stmt = "check_inference_comparison" ->
            BetweenError("inference_comparison", Lit(1), Param("cluster_units"))
      [] stmt = "check_low_dimension_bits" ->
            BetweenError("low_dimension_bits", Lit(1), Lit(16))
      [] stmt = "check_max_degree" -> BetweenError("max_degree", Lit(4), Lit(64))
      [] stmt = "check_search_scope_index" ->
            BetweenError("search_scope_index", Lit(8), Lit(512))
      [] stmt = "check_search_scope_inference" ->
            BetweenError("search_scope_inference", Lit(1), Lit(32768))

C8_RangeErrorNamesBound ==
    (status = "raised" /\ executed[Len(executed)] \in BoundsTests) =>
        /\ error.field = Enforced(executed[Len(executed)]).field
        /\ error.field \in error.interpolated
        /\ error.lo = Enforced(executed[Len(executed)]).lo
        /\ error.hi = Enforced(executed[Len(executed)]).hi

(***************************************************************************)
(* C9.  Each of the seven variants is a member of exactly one of the       *)
(* Floating and Binary sets (Floating: FLAT, IVF_FLAT, IVF_SQ8, IVF_PQ,    *)
(* HNSW; Binary: BIN_FLAT, BIN_IVF_FLAT), in every reachable state.        *)
(***************************************************************************)
C9_ClassificationTotalDisjoint ==
    /\ \A t \in {"FLAT", "IVF_FLAT", "IVF_SQ8", "IVF_PQ", "HNSW", "BIN_FLAT", "BIN_IVF_FLAT"} :
          /\ (t \in floating_indexes) # (t \in binary_indexes)
          /\ (t \in Milvus_FLOATING_INDEXES) # (t \in Milvus_BINARY_INDEXES)
          /\ t \in floating_indexes <=> FamilyOf(t) = "Floating"
          /\ t \in Milvus_FLOATING_INDEXES <=> FamilyOf(t) = "Floating"
    /\ floating_indexes \cup binary_indexes \subseteq Classes
    /\ Milvus_FLOATING_INDEXES \cup Milvus_BINARY_INDEXES \subseteq Classes

C9_Witness ==
    /\ status = "returned"
    /\ call.cls = "BIN_FLAT"
    /\ "BIN_FLAT" \in binary_indexes
    /\ "BIN_FLAT" \notin floating_indexes

(***************************************************************************)
(* C10.  The checks of a construction run in a fixed order: the default    *)
(* metric, the metric's compatibility, then the numeric bounds in the      *)
(* order of the parameters.  So a call with both an incompatible metric    *)
(* and an out-of-bound numeric field fails with the incompatible-metric    *)
(* error, and no numeric field is stored before every bounds test passed.  *)
(***************************************************************************)
IsCheck(stmt) == stmt \in {"resolve_default", "assert_metric_type"} \cup BoundsTests

ChecksInOrder(cls) ==
    <<"resolve_default", "assert_metric_type">> \o
    (CASE cls \in IvfClasses -> <<"check_cluster_units", "check_inference_comparison">>
       [] cls = "IVF_PQ" -> <<"check_cluster_units", "check_inference_comparison",
                              "check_low_dimension_bits">>
       [] cls = "HNSW" -> <<"check_max_degree", "check_search_scope_index",
                            "check_search_scope_inference">>
       [] OTHER -> <<>>)

IsPrefix(s, t) == Len(s) <= Len(t) /\ s = SubSeq(t, 1, Len(s))

OutOfBounds(args) ==
    CASE args.cls \in IvfClasses -> ~ValidClusterAndProbe(args)
      [] args.cls = "IVF_PQ" -> ~(ValidClusterAndProbe(args) /\ ValidCodeBits(args))
      [] args.cls = "HNSW" -> ~ValidHnsw(args)
      [] OTHER -> FALSE

NumericFields == {"nlist", "nprobe", "m", "nbits", "efConstruction", "ef"}

C10_CheckOrder ==
    /\ status # "idle" => IsPrefix(SelectSeq(executed, IsCheck), ChecksInOrder(call.cls))
    /\ (Finished /\ Incompatible(call) /\ OutOfBounds(call)) => RaisedIncompatibleMetric
    /\ self.assigned \cap NumericFields # {} =>
          /\ status # "raised"
          /\ SelectSeq(executed, IsCheck) = ChecksInOrder(call.cls)

C10_Witness ==
    /\ RaisedIncompatibleMetric
    /\ call.cls = "HNSW"
    /\ call.metric_type = JACCARD
    /\ call.max_degree = 3
    /\ executed = <<"resolve_default", "assert_metric_type">>

====
